---------------------------- MODULE Spec2Model ----------------------------
(***************************************************************************)
(* Defect-Detection-System: the detection pipeline of defect_detector.py,  *)
(* image_processor.py and the upload route of app.py as state machines.    *)
(*                                                                         *)
(*   SpecResize  ImageProcessor.resize on one (source size, target size)   *)
(*   SpecBrightness  ImageProcessor.adjust_brightness on one image         *)
(*   SpecYolo    DefectDetector._detect_with_yolo on one network output    *)
(*   Spec        a DefectDetector: construction, then detect() and         *)
(*               draw_detections() calls                                   *)
(*   SpecClassical  the crack and the irregularity path on contour lists   *)
(*   SpecDraw    DefectDetector.draw_detections on any list of dicts       *)
(*   SpecConc    request threads sharing the one DefectDetector            *)
(*   SpecApp     the Flask routes of app.py                                *)
(*                                                                         *)
(* Real numbers are kept exact as integers over a fixed denominator:       *)
(* confidences in units of 1/ConfDen, box fractions in units of 1/FracDen. *)
(***************************************************************************)
EXTENDS Integers, Sequences, FiniteSets, TLC

VARIABLES
    rz,            \* the ImageProcessor call and its outcome
    yl,            \* SpecYolo: the _detect_with_yolo call and its outcome
    use_yolo,      \* DefectDetector.use_yolo
    yolo_net,      \* DefectDetector.yolo_net: "None" or "net"
    yolo_classes,  \* DefectDetector.yolo_classes
    model_files,   \* the model files on disk, and the error their load raised
    loads,         \* number of times _load_yolo_model has run
    call,          \* Spec: the detect()/draw_detections() call in progress
    net_input,     \* SpecConc: the input tensor held by the shared yolo_net
    threads,       \* SpecConc: each request thread's place in detect()
    session,       \* SpecApp: session['username'], or "None"
    USERS,         \* SpecApp: username -> password hash
    uploads,       \* SpecApp: the files saved under uploads/
    processed,     \* SpecApp: static/processed/ annotated images, by name
    results_files, \* SpecApp: static/processed/ results records, by name
    clock,         \* SpecApp: index of the current second in Stamps
    response       \* SpecApp: what the last request was answered with

vars == <<rz, yl, use_yolo, yolo_net, yolo_classes, model_files, loads, call,
          net_input, threads,
          session, USERS, uploads, processed, results_files, clock, response>>
detectorVars == <<use_yolo, yolo_net, yolo_classes, model_files, loads>>
concVars == <<net_input, threads>>
storeVars == <<uploads, processed, results_files>>
appVars == <<session, USERS, storeVars, clock, response>>

Min(a, b) == IF a <= b THEN a ELSE b
Max(a, b) == IF a >= b THEN a ELSE b

Idle == [pc |-> "idle"]

-----------------------------------------------------------------------------
(* ImageProcessor.resize                                                   *)

\* Source widths and heights 1..MaxSrc, and target sides 1..MaxTarget.
MaxSrc == 4
MaxTarget == 3

\* self.target_size = (640, 640)
TARGET_SIDE == 640

\* Sizes of real photographs next to the small ones: 638 and 49 are sides on
\* which the float product below loses one, 2000 an extreme aspect ratio.
SrcSides == (1..MaxSrc) \cup {49, 638, 640, 2000}
TargetSizes == ((1..MaxTarget) \X (1..MaxTarget)) \cup {<<TARGET_SIDE, TARGET_SIDE>>}

\* IEEE-754 double rounding of x * (num / den): the triples <<x, num, den>>
\* of the sizes above on which int(x * (num / den)) is one less than the
\* exact floor (x * num) \div den (the quotient num / den rounds down and
\* the product lands just below the integer).
FloatProductLow ==
    { <<49, 1, 49>>, <<49, 2, 49>>, <<49, 4, 49>>,
      <<638, 5, 638>>, <<638, 640, 638>> }

\* int(x * scale) for scale = num / den.
IntOfProduct(x, num, den) ==
    IF <<x, num, den>> \in FloatProductLow
    THEN ((x * num) \div den) - 1
    ELSE (x * num) \div den

\* scale = min(target_width / width, target_height / height), as <<num, den>>.
scale(width, height, target_width, target_height) ==
    IF target_width * height <= target_height * width
    THEN <<target_width, width>>
    ELSE <<target_height, height>>

\* Mutant of pad_leading: the odd remainder goes to the leading side.
pad_leading_ceil(total) == (total + 1) \div 2

\* pad_top = (target_height - new_height) // 2, pad_left likewise.
pad_leading(total) == total \div 2

\* new_width = int(width * scale), new_height = int(height * scale).
resize_new(width, height, target_width, target_height) ==
    LET s == scale(width, height, target_width, target_height)
    IN  [new_width  |-> IntOfProduct(width, s[1], s[2]),
         new_height |-> IntOfProduct(height, s[1], s[2])]

\* resize(image, target_size): cv2.resize raises on an empty destination
\* size; copyMakeBorder adds the four pads to the resized image.
resize(width, height, target_width, target_height) ==
    LET n == resize_new(width, height, target_width, target_height)
        nw == n.new_width
        nh == n.new_height
        base == [width |-> width, height |-> height,
                 target_width |-> target_width, target_height |-> target_height,
                 new_width |-> nw, new_height |-> nh]
    IN  IF nw <= 0 \/ nh <= 0
        THEN base @@ [pc |-> "raised", padded |-> FALSE,
                      pad_top |-> 0, pad_bottom |-> 0, pad_left |-> 0, pad_right |-> 0,
                      out_width |-> 0, out_height |-> 0]
        ELSE IF nw # target_width \/ nh # target_height
        THEN LET pad_top == pad_leading(target_height - nh)
                 pad_bottom == target_height - nh - pad_top
                 pad_left == pad_leading(target_width - nw)
                 pad_right == target_width - nw - pad_left
             IN  IF pad_top < 0 \/ pad_bottom < 0 \/ pad_left < 0 \/ pad_right < 0
                 THEN base @@ [pc |-> "raised", padded |-> TRUE,
                               pad_top |-> pad_top, pad_bottom |-> pad_bottom,
                               pad_left |-> pad_left, pad_right |-> pad_right,
                               out_width |-> 0, out_height |-> 0]
                 ELSE base @@ [pc |-> "returned", padded |-> TRUE,
                               pad_top |-> pad_top, pad_bottom |-> pad_bottom,
                               pad_left |-> pad_left, pad_right |-> pad_right,
                               out_width |-> nw + pad_left + pad_right,
                               out_height |-> nh + pad_top + pad_bottom]
        ELSE base @@ [pc |-> "returned", padded |-> FALSE,
                      pad_top |-> 0, pad_bottom |-> 0, pad_left |-> 0, pad_right |-> 0,
                      out_width |-> nw, out_height |-> nh]

ResizeCall ==
    /\ rz.pc = "called"
    /\ rz' = resize(rz.width, rz.height, rz.target_width, rz.target_height)
    /\ UNCHANGED <<yl, detectorVars, call, concVars, appVars>>

NoThreads ==
    /\ net_input = "none"
    /\ threads = <<>>

NoApp ==
    /\ session = "None"
    /\ USERS = <<>>
    /\ uploads = {}
    /\ processed = <<>>
    /\ results_files = <<>>
    /\ clock = 0
    /\ response = Idle

NoDetector ==
    /\ use_yolo = FALSE
    /\ yolo_net = "None"
    /\ yolo_classes = <<>>
    /\ model_files = [config |-> FALSE, weights |-> FALSE, classes |-> FALSE,
                      names |-> <<>>, installed_later |-> FALSE,
                      load_fault |-> "none"]
    /\ loads = 0
    /\ call = Idle
    /\ NoThreads
    /\ NoApp

InitResize ==
    /\ \E w \in SrcSides, h \in SrcSides, t \in TargetSizes :
          rz = [pc |-> "called", width |-> w, height |-> h,
                target_width |-> t[1], target_height |-> t[2]]
    /\ yl = Idle
    /\ NoDetector

NextResize == ResizeCall

SpecResize == InitResize /\ [][NextResize]_vars

\* C8: for every source size and every target size, resize completes and the
\* returned image has exactly the target width and height.
C8_ResizeReturnsTargetSize ==
    rz.pc \in {"returned", "raised"} =>
        /\ rz.pc = "returned"
        /\ rz.out_width = rz.target_width
        /\ rz.out_height = rz.target_height

\* C9: in resize the scaled content never exceeds the target in either
\* dimension, all four pads are >= 0, the two pads of an axis sum to the
\* target minus the scaled size, and trailing minus leading pad is 0 or 1.
C9_PadsSplitEvenlyTrailingOdd ==
    /\ rz.pc \in {"returned", "raised"} =>
          /\ rz.new_width <= rz.target_width
          /\ rz.new_height <= rz.target_height
    /\ rz.pc = "returned" =>
          /\ rz.pad_top >= 0 /\ rz.pad_bottom >= 0
          /\ rz.pad_left >= 0 /\ rz.pad_right >= 0
          /\ rz.pad_top + rz.pad_bottom = rz.target_height - rz.new_height
          /\ rz.pad_left + rz.pad_right = rz.target_width - rz.new_width
          /\ rz.pad_bottom - rz.pad_top \in {0, 1}
          /\ rz.pad_right - rz.pad_left \in {0, 1}

\* C9 witness: a resize that returned after padding an odd remainder, the
\* extra row on the bottom.
C9_Witness ==
    /\ rz.pc = "returned"
    /\ rz.padded
    /\ rz.pad_bottom = rz.pad_top + 1
    /\ rz.pad_top >= 1

-----------------------------------------------------------------------------
(* ImageProcessor.adjust_brightness                                        *)

\* alpha is kept as AlphaDen * alpha, so that alpha * pixel + beta is exact
\* (in float32 too: halves of small integers).
AlphaDen == 2

\* The range of np.uint8.
UINT8_MAX == 255

\* Contrast factors -1, 0, 0.5, 1 (the default), 1.5 and 2 in halves, and
\* brightness offsets.
Alphas == {-2, 0, 1, 2, 3, 4}
Betas == {-300, -40, 0, 40, 300}

\* Images of two pixels: one of any value, one black or white.
BrightnessImages == { <<p, q>> : p \in 0..UINT8_MAX, q \in {0, UINT8_MAX} }

\* Mutant of adjust_pixel: the uint8 conversion without np.clip before it.
adjust_pixel_wrapping(pixel, alpha, beta) ==
    ((alpha * pixel + AlphaDen * beta) \div AlphaDen) % (UINT8_MAX + 1)

\* One pixel of adjust_brightness: alpha * image_float + beta, np.clip to
\* [0, 255], then astype(np.uint8), which drops the fraction.
adjust_pixel(pixel, alpha, beta) ==
    LET adjusted == alpha * pixel + AlphaDen * beta
        clipped == Max(0, Min(adjusted, AlphaDen * UINT8_MAX))
    IN  clipped \div AlphaDen

adjust_brightness(image, alpha, beta) ==
    [n \in DOMAIN image |-> adjust_pixel(image[n], alpha, beta)]

AdjustBrightnessCall ==
    /\ rz.pc = "adjust_called"
    /\ rz' = [pc |-> "adjusted", image |-> rz.image, alpha |-> rz.alpha,
              beta |-> rz.beta,
              out |-> adjust_brightness(rz.image, rz.alpha, rz.beta)]
    /\ UNCHANGED <<yl, detectorVars, call, concVars, appVars>>

InitBrightness ==
    /\ \E image \in BrightnessImages, alpha \in Alphas, beta \in Betas :
          rz = [pc |-> "adjust_called", image |-> image, alpha |-> alpha, beta |-> beta]
    /\ yl = Idle
    /\ NoDetector

NextBrightness == AdjustBrightnessCall

SpecBrightness == InitBrightness /\ [][NextBrightness]_vars

\* AlphaDen * clip(alpha * in + beta, 0, 255) for pixel n of the call.
ClipOfPixel(n) ==
    LET v == rz.alpha * rz.image[n] + AlphaDen * rz.beta
    IN  IF v < 0 THEN 0
        ELSE IF v > AlphaDen * UINT8_MAX THEN AlphaDen * UINT8_MAX
        ELSE v

-----------------------------------------------------------------------------
(* DefectDetector._detect_with_yolo                                        *)

\* Confidences are integers in units of 1/ConfDen. Contour areas are kept
\* doubled (cv2.contourArea returns multiples of 0.5), so area / 1000 (crack
\* path) is 5 units and area / 5000 (irregularity path) 1 unit per half pixel.
ConfDen == 10 * 1000

\* Box fractions of a network output row are integers in units of 1/FracDen,
\* steps of 5 pixels of the 640-pixel image.
FracDen == TARGET_SIDE \div 5

\* conf_threshold = 0.5 and nms_threshold = 0.4 = NmsNum / NmsDen
conf_threshold == ConfDen \div 2
NmsNum == 2
NmsDen == 5

\* Number of rows of one network output.
MaxRows == 3

\* Rows of the network output: centre, extent (fractions of the image) and
\* the per-class scores.
YoloRow(cx, cy, w, h, scores) ==
    [cx |-> cx, cy |-> cy, w |-> w, h |-> h, scores |-> scores]

YoloRows ==
    { YoloRow(56, 64, 112, 64, <<9000, 200>>),   \* 0..560 wide
      YoloRow(104, 64, 112, 64, <<200, 8000>>),  \* IoU 2/5 with the first
      YoloRow(96, 64, 112, 64, <<7800, 8000>>),  \* IoU 9/19 with the first
      YoloRow(1, 64, 3, 64, <<0, 6000>>),        \* at the left border, odd width
      YoloRow(64, 64, 0, 0, <<5200, 5200>>),     \* extent rounds to zero
      YoloRow(64, 64, 64, 64, <<5000, 4800>>) }  \* score equal to the threshold

SeqsUpTo(S, n) == UNION { [1..k -> S] : k \in 0..n }

\* np.argmax(scores): zero-based index of the first maximal score.
argmax(scores) ==
    (CHOOSE i \in 1..Len(scores) :
        /\ \A j \in 1..Len(scores) : scores[j] <= scores[i]
        /\ \A j \in 1..(i - 1) : scores[j] < scores[i]) - 1

\* int(v) of the float v = n / 2: truncation toward zero.
IntOfHalves(n) == IF n >= 0 THEN n \div 2 ELSE -((-n) \div 2)

\* One row parsed: class_id, confidence and the box [x, y, w, h] in pixels.
parse_row(row, width, height) ==
    LET class_id == argmax(row.scores)
        center_x == (row.cx * width) \div FracDen
        center_y == (row.cy * height) \div FracDen
        w == (row.w * width) \div FracDen
        h == (row.h * height) \div FracDen
    IN  [box |-> <<IntOfHalves(2 * center_x - w), IntOfHalves(2 * center_y - h), w, h>>,
         confidence |-> row.scores[class_id + 1],
         class_id |-> class_id]

\* boxes, confidences and class_ids: the rows whose best score exceeds
\* conf_threshold, in output order.
candidates(outputs, width, height) ==
    SelectSeq([i \in 1..Len(outputs) |-> parse_row(outputs[i], width, height)],
              LAMBDA c : c.confidence > conf_threshold)

\* cv::Rect area and intersection area of two boxes [x, y, w, h].
rect_area(b) == b[3] * b[4]

rect_intersection_area(a, b) ==
    LET x1 == Max(a[1], b[1])
        y1 == Max(a[2], b[2])
        w == Min(a[1] + a[3], b[1] + b[3]) - x1
        h == Min(a[2] + a[4], b[2] + b[4]) - y1
    IN  IF w <= 0 \/ h <= 0 THEN 0 ELSE w * h

\* rectOverlap(a, b) <= nms_threshold, rectOverlap = 1 - jaccardDistance:
\* two empty boxes have distance 0, that is overlap 1.
overlap_within(a, b) ==
    LET Aab == rect_intersection_area(a, b)
    IN  IF rect_area(a) + rect_area(b) <= 0 THEN FALSE
        ELSE NmsDen * Aab <= NmsNum * (rect_area(a) + rect_area(b) - Aab)

\* The indices of cands by descending confidence, earlier index first on
\* ties (std::stable_sort).
RECURSIVE sort_by_score(_, _)
sort_by_score(cands, left) ==
    IF left = {} THEN <<>>
    ELSE LET best == CHOOSE i \in left : \A j \in left :
                        \/ cands[i].confidence > cands[j].confidence
                        \/ cands[i].confidence = cands[j].confidence /\ i <= j
         IN  <<best>> \o sort_by_score(cands, left \ {best})

\* Mutant of nms_keep: a box is suppressed only by a kept box of its class.
RECURSIVE nms_keep_per_class(_, _, _)
nms_keep_per_class(cands, order, kept) ==
    IF order = <<>> THEN kept
    ELSE LET i == Head(order)
             keep == \A k \in 1..Len(kept) :
                        \/ cands[i].class_id # cands[kept[k]].class_id
                        \/ overlap_within(cands[i].box, cands[kept[k]].box)
         IN  nms_keep_per_class(cands, Tail(order),
                                IF keep THEN Append(kept, i) ELSE kept)

\* The greedy pass of NMSBoxes over the sorted indices.
RECURSIVE nms_keep(_, _, _)
nms_keep(cands, order, kept) ==
    IF order = <<>> THEN kept
    ELSE LET i == Head(order)
             keep == \A k \in 1..Len(kept) :
                        overlap_within(cands[i].box, cands[kept[k]].box)
         IN  nms_keep(cands, Tail(order), IF keep THEN Append(kept, i) ELSE kept)

\* cv2.dnn.NMSBoxes(boxes, confidences, conf_threshold, nms_threshold).
NMSBoxes(cands) ==
    nms_keep(cands,
             sort_by_score(cands, {i \in 1..Len(cands) : cands[i].confidence > conf_threshold}),
             <<>>)

Detection(type, confidence, bbox) ==
    [type |-> type, confidence |-> confidence, bbox |-> bbox]

class_name(classes, class_id) ==
    IF class_id < Len(classes) THEN classes[class_id + 1] ELSE "Unknown"

\* The detections a path returns when an error strikes it: with fault = 0
\* there is none; with fault = f >= 1 the exception is raised after at most
\* f - 1 detections were appended and the except clause returns that list.
Caught(full, fault) ==
    IF fault = 0 THEN [detections |-> full, raised |-> FALSE]
    ELSE [detections |-> SubSeq(full, 1, Min(fault - 1, Len(full))), raised |-> TRUE]

_detect_with_yolo(net, classes, outputs, width, height, fault) ==
    IF net = "None" THEN [detections |-> <<>>, raised |-> FALSE]
    ELSE LET cands == candidates(outputs, width, height)
             indices == NMSBoxes(cands)
             full == [n \in 1..Len(indices) |->
                        LET c == cands[indices[n]]
                        IN  Detection(class_name(classes, c.class_id), c.confidence,
                                      <<c.box[1], c.box[2],
                                        c.box[1] + c.box[3], c.box[2] + c.box[4]>>)]
         IN  Caught(full, fault)

\* The class-name lists a loaded coco.names can give.
ClassLists == { <<>>, <<"Dent">> }

YoloCall ==
    /\ yl.pc = "called"
    /\ yl' = [pc |-> "returned", outputs |-> yl.outputs, classes |-> yl.classes,
              detections |-> _detect_with_yolo("net", yl.classes, yl.outputs,
                                               TARGET_SIDE, TARGET_SIDE, 0).detections]
    /\ UNCHANGED <<rz, detectorVars, call, concVars, appVars>>

InitYolo ==
    /\ \E o \in SeqsUpTo(YoloRows, MaxRows), c \in ClassLists :
          yl = [pc |-> "called", outputs |-> o, classes |-> c]
    /\ rz = Idle
    /\ NoDetector

NextYolo == YoloCall

SpecYolo == InitYolo /\ [][NextYolo]_vars

\* Intersection and union areas of two detections' bboxes [x1, y1, x2, y2].
BboxArea(b) == Max(b[3] - b[1], 0) * Max(b[4] - b[2], 0)

BboxInter(a, b) ==
    Max(Min(a[3], b[3]) - Max(a[1], b[1]), 0) * Max(Min(a[4], b[4]) - Max(a[2], b[2]), 0)

IoUAbove(a, b, num, den) ==
    den * BboxInter(a, b) > num * (BboxArea(a) + BboxArea(b) - BboxInter(a, b))

\* C7: no two model-path detections emitted by one call of _detect_with_yolo
\* have Intersection-over-Union above 0.4, whatever their class labels.
C7_NoTwoModelDetectionsOverlap ==
    yl.pc = "returned" =>
        \A i, j \in 1..Len(yl.detections) :
            i # j => ~IoUAbove(yl.detections[i].bbox, yl.detections[j].bbox, 2, 5)

\* C7 witness: a call that suppressed a box overlapping a kept one and kept
\* two boxes of different classes that overlap (by no more than 0.4).
C7_Witness ==
    /\ yl.pc = "returned"
    /\ Len(yl.detections) >= 2
    /\ Len(yl.detections) < Len(candidates(yl.outputs, TARGET_SIDE, TARGET_SIDE))
    /\ \E i, j \in 1..Len(yl.detections) :
          /\ yl.detections[i].type # yl.detections[j].type
          /\ BboxInter(yl.detections[i].bbox, yl.detections[j].bbox) > 0

-----------------------------------------------------------------------------
(* DefectDetector: the classical paths, detect and construction            *)

\* A contour as the paths read it: twice cv2.contourArea, cv2.boundingRect
\* and cv2.arcLength.
Contour(area2, x, y, w, h, perimeter) ==
    [area2 |-> area2, x |-> x, y |-> y, w |-> w, h |-> h, perimeter |-> perimeter]

\* Mutant of crack_filter: the aspect-ratio test is dropped.
crack_filter_area_only(c) == c.area2 > 2 * 100

\* area > min_area and aspect_ratio = max(w, h) / max(min(w, h), 1) > 3
crack_filter(c) ==
    /\ c.area2 > 2 * 100
    /\ Max(c.w, c.h) > 3 * Max(Min(c.w, c.h), 1)

\* min(0.9, area / 1000)
crack_confidence(c) == Min((9 * ConfDen) \div 10, 5 * c.area2)

_detect_cracks(contours, fault) ==
    LET passing == SelectSeq(contours, crack_filter)
        full == [n \in 1..Len(passing) |->
                    LET c == passing[n]
                    IN  Detection("Crack", crack_confidence(c),
                                  <<c.x, c.y, c.x + c.w, c.y + c.h>>)]
    IN  Caught(full, fault)

\* circularity = 4 * pi * area / perimeter ** 2 if perimeter > 0 else 0,
\* compared with 0.5; pi as 355 / 113.
circularity_below_half(c) ==
    IF c.perimeter > 0
    THEN 4 * 355 * c.area2 < 113 * c.perimeter * c.perimeter
    ELSE TRUE

\* Mutant of irregularity_filter: no upper limit on the area.
irregularity_filter_no_max(c) ==
    /\ 2 * 200 < c.area2
    /\ circularity_below_half(c)

\* min_area < area < max_area and circularity < 0.5
irregularity_filter(c) ==
    /\ 2 * 200 < c.area2
    /\ c.area2 < 2 * 50000
    /\ circularity_below_half(c)

\* min(0.8, area / 5000)
irregularity_confidence(c) == Min((8 * ConfDen) \div 10, c.area2)

_detect_surface_irregularities(contours, fault) ==
    LET passing == SelectSeq(contours, irregularity_filter)
        full == [n \in 1..Len(passing) |->
                    LET c == passing[n]
                    IN  Detection("Surface Irregularity", irregularity_confidence(c),
                                  <<c.x, c.y, c.x + c.w, c.y + c.h>>)]
    IN  Caught(full, fault)

\* _detect_with_classical: grayscale is called outside any try block, so an
\* error in it leaves the function; the two paths catch their own.
_detect_with_classical(image) ==
    IF image.gray_fault
    THEN [raised |-> TRUE, detections |-> <<>>, crack |-> <<>>, irregularity |-> <<>>]
    ELSE LET crack == _detect_cracks(image.cracks, image.crack_fault).detections
             irregularity ==
                 _detect_surface_irregularities(image.irregularities,
                                                image.irregularity_fault).detections
         IN  [raised |-> FALSE, detections |-> crack \o irregularity,
              crack |-> crack, irregularity |-> irregularity]

\* Mutant of detect: the model detections are appended after the classical.
detect_classical_first(self, image) ==
    LET yolo == IF self.use_yolo
                THEN _detect_with_yolo(self.yolo_net, self.yolo_classes, image.outputs,
                                       image.width, image.height, image.yolo_fault).detections
                ELSE <<>>
        classical == _detect_with_classical(image)
    IN  IF classical.raised
        THEN [raised |-> TRUE, detections |-> <<>>]
        ELSE [raised |-> FALSE, detections |-> classical.detections \o yolo]

\* detect(image): the list returned, or the exception that leaves it.
detect(self, image) ==
    LET yolo == IF self.use_yolo
                THEN _detect_with_yolo(self.yolo_net, self.yolo_classes, image.outputs,
                                       image.width, image.height, image.yolo_fault).detections
                ELSE <<>>
        classical == _detect_with_classical(image)
    IN  IF classical.raised
        THEN [raised |-> TRUE, detections |-> <<>>]
        ELSE [raised |-> FALSE, detections |-> yolo \o classical.detections]

\* The step of the load sequence that raises: none, cv2.dnn.readNet, the
\* setPreferableBackend / setPreferableTarget calls, the class-name read.
\* Only a step that runs can raise.
LoadFaults == {"none", "readNet", "backend", "classes"}

\* Mutant of _load_yolo_model: use_yolo is set as soon as the network is read.
_load_yolo_model_flag_first(files, fault) ==
    IF files.config /\ files.weights
    THEN IF fault = "readNet"
         THEN [use_yolo |-> FALSE, yolo_net |-> "None", yolo_classes |-> <<>>]
         ELSE IF fault = "backend" \/ (fault = "classes" /\ files.classes)
         THEN [use_yolo |-> TRUE, yolo_net |-> "net", yolo_classes |-> <<>>]
         ELSE [use_yolo |-> TRUE, yolo_net |-> "net",
               yolo_classes |-> IF files.classes THEN files.names ELSE <<>>]
    ELSE [use_yolo |-> FALSE, yolo_net |-> "None", yolo_classes |-> <<>>]

\* _load_yolo_model: files is what exists on disk, fault the step of the
\* load sequence that raises.
_load_yolo_model(files, fault) ==
    IF files.config /\ files.weights
    THEN IF fault = "readNet"
         THEN [use_yolo |-> FALSE, yolo_net |-> "None", yolo_classes |-> <<>>]
         ELSE IF fault = "backend" \/ (fault = "classes" /\ files.classes)
         THEN [use_yolo |-> FALSE, yolo_net |-> "net", yolo_classes |-> <<>>]
         ELSE [use_yolo |-> TRUE, yolo_net |-> "net",
               yolo_classes |-> IF files.classes THEN files.names ELSE <<>>]
    ELSE [use_yolo |-> FALSE, yolo_net |-> "None", yolo_classes |-> <<>>]

\* cv2.getTextSize(label, cv2.FONT_HERSHEY_SIMPLEX, 0.5, 2): at this scale
\* and thickness the text is 12 pixels high and about 9 pixels a character
\* wide, plus the thickness.
LABEL_HEIGHT == 12
GLYPH_WIDTH == 9
LABEL_THICKNESS == 2

\* label = f"{defect_type}: {confidence:.2f}": the type, ": " and "d.dd".
label_length(det) == Len(det.type) + 2 + 4

label_size(det) ==
    <<GLYPH_WIDTH * label_length(det) + LABEL_THICKNESS, LABEL_HEIGHT>>

\* A detection dict as draw_detections reads it: det['bbox'] and det['type']
\* raise KeyError on a missing key, x1, y1, x2, y2 = bbox raises ValueError
\* unless bbox has four elements, and {confidence:.2f} raises on a value
\* that is not a number. A dict whose confidence is not a number carries it
\* as confidence_text; one without either gets det.get's default 0.0.
draws_without_error(det) ==
    /\ "bbox" \in DOMAIN det
    /\ "type" \in DOMAIN det
    /\ Len(det.bbox) = 4
    /\ ~("confidence_text" \in DOMAIN det)

\* The filled label background: from (x1, label_y - label_size[1] - 10) to
\* (x1 + label_size[0], label_y), with label_y = max(y1, label_size[1] + 10).
label_background(det) ==
    LET x1 == det.bbox[1]
        y1 == det.bbox[2]
        size == label_size(det)
        label_y == Max(y1, size[2] + 10)
    IN  [left |-> x1, top |-> label_y - size[2] - 10,
         right |-> x1 + size[1], bottom |-> label_y]

\* The index of the first detection on which the loop raises, 0 if none.
first_raising(detections) ==
    LET bad == { n \in 1..Len(detections) : ~draws_without_error(detections[n]) }
    IN  IF bad = {} THEN 0 ELSE CHOOSE n \in bad : \A m \in bad : n <= m

\* draw_detections(image, detections): the copy of the image with each
\* detection's box and label drawn on it, in list order. Nothing in it
\* catches an error: the first detection that raises ends the call and the
\* annotated copy is lost.
draw_detections(image, detections) ==
    LET k == first_raising(detections)
    IN  IF k = 0
        THEN [pc |-> "drawn", raised |-> FALSE, detections |-> detections,
              width |-> image.width, height |-> image.height,
              drawn |-> detections,
              labels |-> [n \in 1..Len(detections) |-> label_background(detections[n])]]
        ELSE [pc |-> "draw_raised", raised |-> TRUE, detections |-> detections,
              width |-> image.width, height |-> image.height,
              drawn |-> <<>>, labels |-> <<>>]

\* Mutant of detector_after_call: a detector without a model loads again.
detector_reloading(self, files) ==
    IF self.use_yolo THEN self
    ELSE _load_yolo_model(files, "none") @@ [loads |-> self.loads + 1]

\* The detector's fields after detect() or draw_detections(): neither
\* assigns any of them nor calls _load_yolo_model.
detector_after_call(self, files) == self

Self ==
    [use_yolo |-> use_yolo, yolo_net |-> yolo_net, yolo_classes |-> yolo_classes,
     loads |-> loads]

SetSelf(d) ==
    /\ use_yolo' = d.use_yolo
    /\ yolo_net' = d.yolo_net
    /\ yolo_classes' = d.yolo_classes
    /\ loads' = d.loads

\* Lengths of the lists a call's image gives the three paths.
MaxItems == 2

\* Where an error may strike a classical path: never, before its first
\* detection, after its first detection (its cv2 calls run per contour).
FaultPoints == {0, 1, 2}

\* Where an error may strike the model path: never, or in the cv2 calls up
\* to NMSBoxes, which all run before the first detection is appended.
YoloFaultPoints == {0, 1}

SceneRows ==
    { YoloRow(56, 64, 112, 64, <<9000, 200>>),
      YoloRow(1, 64, 3, 64, <<0, 6000>>) }

\* Crack-path contours: a thin vertical streak, and a streak along the
\* bottom border over the whole width.
CrackContours ==
    { Contour(2 * 500, 100, 50, 10, 100, 220),
      Contour(2 * 2000, 0, 600, 640, 40, 1360) }

\* Irregularity-path contours: a ragged patch, and a large ragged region.
IrregularityContours ==
    { Contour(2 * 1000, 200, 200, 100, 30, 300),
      Contour(2 * 30000, 20, 20, 600, 600, 2000) }

\* The preprocessed images detect() is called with: what the network and
\* the contour extraction give on them, and the errors that strike. When
\* grayscale raises no contour is ever extracted.
Images(with_model) ==
    { [width |-> TARGET_SIDE, height |-> TARGET_SIDE,
       outputs |-> o, yolo_fault |-> fy,
       gray_fault |-> t[1],
       cracks |-> t[2], crack_fault |-> t[3],
       irregularities |-> t[4], irregularity_fault |-> t[5]] :
        o \in IF with_model THEN SeqsUpTo(SceneRows, MaxItems) ELSE {<<>>},
        fy \in IF with_model THEN YoloFaultPoints ELSE {0},
        t \in { u \in BOOLEAN \X SeqsUpTo(CrackContours, MaxItems) \X FaultPoints
                        \X SeqsUpTo(IrregularityContours, MaxItems) \X FaultPoints :
                    u[1] => (u[2] = <<>> /\ u[4] = <<>> /\ u[3] = 0 /\ u[5] = 0) } }

\* defect_detector.detect(image)
Detect ==
    /\ call.pc = "idle"
    /\ \E image \in Images(use_yolo) :
          LET r == detect(Self, image)
          IN  call' = [pc |-> IF r.raised THEN "detect_raised" ELSE "detect_returned",
                       image |-> image, detections |-> r.detections]
    /\ SetSelf(detector_after_call(Self, model_files))
    /\ UNCHANGED <<rz, yl, model_files, concVars, appVars>>

\* defect_detector.draw_detections(image, detections) on the list detect returned
DrawDetections ==
    /\ call.pc = "detect_returned"
    /\ call' = draw_detections(call.image, call.detections)
    /\ SetSelf(detector_after_call(Self, model_files))
    /\ UNCHANGED <<rz, yl, model_files, concVars, appVars>>

\* The caller is done with the call's result.
Return ==
    /\ call.pc \in {"detect_returned", "detect_raised", "drawn", "draw_raised"}
    /\ call' = Idle
    /\ UNCHANGED <<rz, yl, detectorVars, concVars, appVars>>

\* The model files are put on disk while the process runs.
InstallModelFiles ==
    /\ call.pc = "idle"
    /\ ~(model_files.config /\ model_files.weights)
    /\ model_files' = [model_files EXCEPT !.config = TRUE, !.weights = TRUE,
                                          !.installed_later = TRUE]
    /\ UNCHANGED <<rz, yl, use_yolo, yolo_net, yolo_classes, loads, call, concVars, appVars>>

\* DefectDetector(): the state when __init__ has returned.
Init ==
    /\ \E cfg \in BOOLEAN, wts \in BOOLEAN, cls \in BOOLEAN, names \in ClassLists,
          fault \in LoadFaults :
          /\ cls \/ names = <<>>
          /\ fault # "none" => (cfg /\ wts)
          /\ fault = "classes" => cls
          /\ model_files = [config |-> cfg, weights |-> wts, classes |-> cls,
                            names |-> names, installed_later |-> FALSE,
                            load_fault |-> fault]
          /\ LET d == _load_yolo_model(model_files, fault)
             IN  /\ use_yolo = d.use_yolo
                 /\ yolo_net = d.yolo_net
                 /\ yolo_classes = d.yolo_classes
    /\ loads = 1
    /\ call = Idle
    /\ rz = Idle
    /\ yl = Idle
    /\ NoThreads
    /\ NoApp

Next == Detect \/ DrawDetections \/ Return \/ InstallModelFiles

Spec == Init /\ [][Next]_vars

\* What the three paths give on the image of the current call.
ModelPath ==
    IF use_yolo
    THEN _detect_with_yolo(yolo_net, yolo_classes, call.image.outputs,
                           call.image.width, call.image.height,
                           call.image.yolo_fault).detections
    ELSE <<>>

CrackPath == _detect_cracks(call.image.cracks, call.image.crack_fault).detections

IrregularityPath ==
    _detect_surface_irregularities(call.image.irregularities,
                                   call.image.irregularity_fault).detections

DetectReturned == call.pc = "detect_returned"

DetectEnded == call.pc \in {"detect_returned", "detect_raised"}

\* C1: the list returned by detect is exactly the model-path detections, then
\* the crack detections, then the surface-irregularity detections, each in
\* the order its path produced them, and its length is the sum of the three.
C1_DetectConcatenatesPaths ==
    DetectReturned =>
        /\ call.detections = ModelPath \o CrackPath \o IrregularityPath
        /\ Len(call.detections) = Len(ModelPath) + Len(CrackPath) + Len(IrregularityPath)

\* C1 witness: detect returned a list to which every path contributed, the
\* crack path two detections.
C1_Witness ==
    /\ call.pc = "detect_returned"
    /\ Len(ModelPath) >= 1
    /\ Len(CrackPath) >= 2
    /\ Len(IrregularityPath) >= 1
    /\ Len(call.detections) >= 4

\* C2: whatever runtime errors are raised inside the detection stage (model
\* inference, grayscale derivation, crack detection, irregularity detection),
\* detect() returns a list to its caller and never raises.
C2_DetectNeverRaises ==
    DetectEnded => call.pc # "detect_raised"

ModelMissingAtConstruction ==
    \/ model_files.installed_later
    \/ ~(model_files.config /\ model_files.weights)

\* C3: when the topology or weights file did not exist at construction, every
\* later detect() call contributes no model-path detection, raises no error
\* and returns exactly the crack then irregularity detections of the image.
C3_MissingModelGivesClassical ==
    (ModelMissingAtConstruction /\ DetectEnded) =>
        /\ call.pc # "detect_raised"
        /\ call.detections = CrackPath \o IrregularityPath

\* A detection is well formed on a width x height image.
WellFormed(d, width, height) ==
    /\ 0 <= d.confidence /\ d.confidence <= ConfDen
    /\ d.bbox[1] < d.bbox[3]
    /\ d.bbox[2] < d.bbox[4]
    /\ 0 <= d.bbox[1] /\ d.bbox[1] < width
    /\ 0 <= d.bbox[3] /\ d.bbox[3] < width
    /\ 0 <= d.bbox[2] /\ d.bbox[2] < height
    /\ 0 <= d.bbox[4] /\ d.bbox[4] < height

\* C4: every Detection in a list returned by detect() has 0 <= confidence <= 1,
\* x1 < x2, y1 < y2, x1 and x2 in [0, width) and y1 and y2 in [0, height).
C4_DetectionsWellFormed ==
    DetectReturned =>
        \A n \in 1..Len(call.detections) :
            WellFormed(call.detections[n], call.image.width, call.image.height)

\* C6: the model is loaded once, at construction: no detect() or
\* draw_detections() call loads again or changes use_yolo, yolo_net or
\* yolo_classes, so a detector without a model stays without one.
C6_ModelLoadedOnce ==
    [][/\ use_yolo' = use_yolo
       /\ yolo_net' = yolo_net
       /\ yolo_classes' = yolo_classes
       /\ loads = 1 /\ loads' = 1]_vars

\* C6 witness: detect() and draw_detections() have run on a detector that was
\* built without the model files, which were put on disk afterwards.
C6_Witness ==
    /\ call.pc = "drawn"
    /\ model_files.installed_later
    /\ model_files.config /\ model_files.weights
    /\ ~use_yolo /\ yolo_net = "None"
    /\ loads = 1

\* C18: after construction use_yolo is true only if both the topology and
\* the weights file existed and the whole load sequence finished without an
\* exception; in every reachable state use_yolo implies that yolo_net is a
\* loaded network; a load that fails after the network was read leaves
\* use_yolo false, and detect() then returns the classical detections only.
C18_UseYoloOnlyAfterFullLoad ==
    /\ use_yolo =>
          /\ yolo_net = "net"
          /\ model_files.config /\ model_files.weights
          /\ ~model_files.installed_later
          /\ model_files.load_fault = "none"
    /\ model_files.load_fault \in {"backend", "classes"} =>
          /\ ~use_yolo
          /\ DetectReturned => call.detections = CrackPath \o IrregularityPath

\* C18 witness: detect() returned classical detections on a detector whose
\* load failed in the backend setup, after the network had been read.
C18_Witness ==
    /\ model_files.load_fault = "backend"
    /\ yolo_net = "net"
    /\ ~use_yolo
    /\ call.pc = "detect_returned"
    /\ Len(call.detections) >= 2

\* What a path is to contribute under C15: nothing when an error struck it,
\* its full list otherwise.
ModelPathOrNothing ==
    IF use_yolo /\ call.image.yolo_fault = 0
    THEN _detect_with_yolo(yolo_net, yolo_classes, call.image.outputs,
                           call.image.width, call.image.height, 0).detections
    ELSE <<>>

CrackPathOrNothing ==
    IF call.image.crack_fault = 0
    THEN _detect_cracks(call.image.cracks, 0).detections
    ELSE <<>>

IrregularityPathOrNothing ==
    IF call.image.irregularity_fault = 0
    THEN _detect_surface_irregularities(call.image.irregularities, 0).detections
    ELSE <<>>

\* C15: when a runtime error is raised at any point inside model inference,
\* crack detection or irregularity detection, also after that path appended
\* some detections, the failed path contributes an empty list and the other
\* paths contribute their full results.
C15_FailedPathContributesNothing ==
    DetectReturned =>
        call.detections =
            ModelPathOrNothing \o CrackPathOrNothing \o IrregularityPathOrNothing

-----------------------------------------------------------------------------
(* The crack and the irregularity path on any list of contours             *)

\* Length of the contour list cv2.findContours gives a path.
MaxContours == 2

\* Contours at and around the limits of both filters: area 500 and aspect
\* ratio 10; area 100 and 100.5; aspect ratio exactly 3 and just above; a
\* large thin streak; circularity 0.89 with area 300; areas 200, 200.5,
\* 49999.5 and 50000 of low circularity; perimeters either side of
\* circularity 0.5 for area 1000; a single point.
LimitContours ==
    { Contour(2 * 500, 100, 50, 10, 100, 220),
      Contour(2 * 100, 0, 0, 2, 50, 104),
      Contour(2 * 100 + 1, 0, 0, 2, 51, 106),
      Contour(2 * 300, 40, 40, 10, 30, 80),
      Contour(2 * 310, 40, 40, 10, 31, 82),
      Contour(2 * 2000, 0, 600, 640, 40, 1360),
      Contour(2 * 300, 300, 300, 20, 20, 65),
      Contour(2 * 200, 10, 10, 20, 20, 200),
      Contour(2 * 200 + 1, 10, 10, 20, 20, 200),
      Contour(2 * 50000 - 1, 0, 0, 400, 400, 3000),
      Contour(2 * 50000, 0, 0, 400, 400, 3000),
      Contour(2 * 1000, 200, 200, 50, 40, 158),
      Contour(2 * 1000, 200, 200, 50, 40, 159),
      Contour(0, 5, 5, 1, 1, 0) }

\* _detect_cracks on the contours of the edge map
DetectCracksCall ==
    /\ call.pc = "contours"
    /\ call' = [pc |-> "cracks_returned", contours |-> call.contours,
                detections |-> _detect_cracks(call.contours, 0).detections]
    /\ UNCHANGED <<rz, yl, detectorVars, concVars, appVars>>

\* _detect_surface_irregularities on the contours of the thresholded image
DetectIrregularitiesCall ==
    /\ call.pc = "contours"
    /\ call' = [pc |-> "irregularities_returned", contours |-> call.contours,
                detections |->
                    _detect_surface_irregularities(call.contours, 0).detections]
    /\ UNCHANGED <<rz, yl, detectorVars, concVars, appVars>>

InitClassical ==
    /\ \E contours \in SeqsUpTo(LimitContours, MaxContours) :
          call = [pc |-> "contours", contours |-> contours]
    /\ use_yolo = FALSE
    /\ yolo_net = "None"
    /\ yolo_classes = <<>>
    /\ model_files = [config |-> FALSE, weights |-> FALSE, classes |-> FALSE,
                      names |-> <<>>, installed_later |-> FALSE,
                      load_fault |-> "none"]
    /\ loads = 1
    /\ rz = Idle
    /\ yl = Idle
    /\ NoThreads
    /\ NoApp

NextClassical == DetectCracksCall \/ DetectIrregularitiesCall

SpecClassical == InitClassical /\ [][NextClassical]_vars

\* a > 100 and max(w, h) / max(min(w, h), 1) > 3, the area given doubled.
IsCrack(c) ==
    /\ c.area2 > 200
    /\ LET long == IF c.w >= c.h THEN c.w ELSE c.h
           short == IF c.w >= c.h THEN c.h ELSE c.w
       IN  long > 3 * (IF short >= 1 THEN short ELSE 1)

\* The detection C16 prescribes: confidence min(0.9, a / 1000) in 1/10000.
CrackOf(c) ==
    [type |-> "Crack",
     confidence |-> IF 5 * c.area2 < 9000 THEN 5 * c.area2 ELSE 9000,
     bbox |-> <<c.x, c.y, c.x + c.w, c.y + c.h>>]

TheThinContour == Contour(2 * 500, 100, 50, 10, 100, 220)

\* C16: the crack path emits a detection for a contour if and only if its
\* area is > 100 and max(w, h) / max(min(w, h), 1) > 3, both strict, in
\* contour order; the detection has type "Crack", confidence
\* min(0.9, a / 1000) and bbox [x, y, x + w, y + h]. A single contour of
\* aspect ratio 10 and area 500 yields exactly one Crack of confidence 0.5.
C16_CrackPathFilter ==
    call.pc = "cracks_returned" =>
        LET emitting == SelectSeq(call.contours, IsCrack)
        IN  /\ call.detections = [n \in 1..Len(emitting) |-> CrackOf(emitting[n])]
            /\ call.contours = <<TheThinContour>> =>
                  call.detections =
                      <<[type |-> "Crack", confidence |-> ConfDen \div 2,
                         bbox |-> <<100, 50, 110, 150>>]>>

\* C16 witness: the crack path returned one detection for a list of two
\* contours, the other having aspect ratio exactly 3.
C16_Witness ==
    /\ call.pc = "cracks_returned"
    /\ Len(call.contours) = 2
    /\ call.contours[1] = Contour(2 * 300, 40, 40, 10, 30, 80)
    /\ call.contours[2] = TheThinContour
    /\ Len(call.detections) = 1
    /\ call.detections[1].confidence = ConfDen \div 2

\* 200 < a < 50000 and circularity < 0.5, with circularity 4 pi a / p^2 for
\* p > 0 (pi as 355 / 113, the area given doubled) and 0 for p = 0.
IsIrregularity(c) ==
    /\ c.area2 > 400
    /\ c.area2 < 100000
    /\ \/ c.perimeter = 0
       \/ c.perimeter > 0 /\ 8 * 355 * c.area2 < 2 * 113 * c.perimeter * c.perimeter

\* The detection C17 prescribes: confidence min(0.8, a / 5000) in 1/10000.
IrregularityOf(c) ==
    [type |-> "Surface Irregularity",
     confidence |-> IF c.area2 < 8000 THEN c.area2 ELSE 8000,
     bbox |-> <<c.x, c.y, c.x + c.w, c.y + c.h>>]

TheRoundContour == Contour(2 * 300, 300, 300, 20, 20, 65)

\* C17: the irregularity path emits a detection for a contour if and only if
\* 200 < a < 50000, both strict, and circularity < 0.5, where circularity is
\* 4 pi a / p^2 when p > 0 and 0 when p = 0; the detection has type
\* "Surface Irregularity" and confidence min(0.8, a / 5000). A contour of
\* circularity 0.9 and area 300 yields no detection.
C17_IrregularityPathFilter ==
    call.pc = "irregularities_returned" =>
        LET emitting == SelectSeq(call.contours, IsIrregularity)
        IN  /\ call.detections =
                  [n \in 1..Len(emitting) |-> IrregularityOf(emitting[n])]
            /\ call.contours = <<TheRoundContour>> => call.detections = <<>>

\* C17 witness: the irregularity path returned one detection, for the
\* contour of area 49999.5, and none for the round contour before it.
C17_Witness ==
    /\ call.pc = "irregularities_returned"
    /\ Len(call.contours) = 2
    /\ call.contours[1] = TheRoundContour
    /\ call.contours[2] = Contour(2 * 50000 - 1, 0, 0, 400, 400, 3000)
    /\ Len(call.detections) = 1
    /\ call.detections[1].confidence = (8 * ConfDen) \div 10

-----------------------------------------------------------------------------
(* DefectDetector.draw_detections on any list of detection dicts           *)

\* Length of the list draw_detections is called with.
MaxDrawn == 2

\* Detections inside a 640 x 640 image, at its borders and in its middle;
\* one without a confidence; and malformed ones: a bbox of three and of five
\* elements, a confidence that is a string.
DrawInputs ==
    { Detection("Crack", 5000, <<100, 50, 110, 150>>),
      Detection("Crack", 9000, <<0, 0, 300, 40>>),
      Detection("Dent", 7000, <<600, 100, 630, 200>>),
      Detection("Surface Irregularity", 2000, <<200, 620, 300, 639>>),
      [type |-> "Leak", bbox |-> <<10, 300, 60, 360>>],
      [type |-> "Crack", confidence |-> 5000, bbox |-> <<100, 50, 110>>],
      [type |-> "Crack", confidence |-> 5000, bbox |-> <<100, 50, 110, 150, 1>>],
      [type |-> "Dent", confidence_text |-> "high", bbox |-> <<10, 10, 50, 50>>] }

DrawCall ==
    /\ call.pc = "draw_called"
    /\ call' = draw_detections(call.image, call.detections)
    /\ UNCHANGED <<rz, yl, detectorVars, concVars, appVars>>

InitDraw ==
    /\ \E detections \in SeqsUpTo(DrawInputs, MaxDrawn) :
          call = [pc |-> "draw_called",
                  image |-> [width |-> TARGET_SIDE, height |-> TARGET_SIDE],
                  detections |-> detections]
    /\ use_yolo = FALSE
    /\ yolo_net = "None"
    /\ yolo_classes = <<>>
    /\ model_files = [config |-> FALSE, weights |-> FALSE, classes |-> FALSE,
                      names |-> <<>>, installed_later |-> FALSE,
                      load_fault |-> "none"]
    /\ loads = 1
    /\ rz = Idle
    /\ yl = Idle
    /\ NoThreads
    /\ NoApp

NextDraw == DrawCall

SpecDraw == InitDraw /\ [][NextDraw]_vars

DrawEnded == call.pc \in {"drawn", "draw_raised"}

\* C11: draw_detections never aborts on a malformed detection (a bbox that
\* does not have exactly four elements, a confidence that is not a number):
\* it returns an annotated image on which every well-formed detection of
\* the list is drawn.
C11_DrawNeverAbortsOnMalformed ==
    DrawEnded =>
        /\ call.pc = "drawn"
        /\ \A n \in 1..Len(call.detections) :
              draws_without_error(call.detections[n]) =>
                  \E m \in 1..Len(call.drawn) : call.drawn[m] = call.detections[n]

\* C12: for every detection drawn, the filled label background lies inside
\* the image: top >= 0, left >= 0, right (x1 + label width) <= image width
\* and bottom <= image height, also for boxes at the borders.
C12_LabelBackgroundInsideImage ==
    call.pc = "drawn" =>
        \A n \in 1..Len(call.labels) :
            /\ call.labels[n].top >= 0
            /\ call.labels[n].left >= 0
            /\ call.labels[n].right <= call.width
            /\ call.labels[n].bottom <= call.height

-----------------------------------------------------------------------------
(* Concurrent detect() calls on the shared DefectDetector                  *)

\* app.run() serves each request in its own thread; all of them call the
\* module-level defect_detector.
NumThreads == 2

\* The images being uploaded, told apart by their content.
NumImages == 2

Threads == 1..NumThreads

\* self.use_yolo and self.yolo_net as detect() and _detect_with_yolo test them.
model_path_taken == use_yolo /\ yolo_net # "None"

\* A request thread enters detect(image): with the model enabled it builds
\* its blob, otherwise it goes on to the classical paths.
EnterDetect(t) ==
    /\ threads[t].pc = "idle"
    /\ \E img \in 1..NumImages :
          threads' = [threads EXCEPT ![t] =
                        [pc |-> IF model_path_taken THEN "blob" ELSE "classical",
                         image |-> img, forward_from |-> "none"]]
    /\ UNCHANGED <<rz, yl, detectorVars, call, net_input, appVars>>

\* self.yolo_net.setInput(blob)
SetInput(t) ==
    /\ threads[t].pc = "blob"
    /\ net_input' = threads[t].image
    /\ threads' = [threads EXCEPT ![t].pc = "input_set"]
    /\ UNCHANGED <<rz, yl, detectorVars, call, appVars>>

\* outputs = self.yolo_net.forward(output_layers): computed from the tensor
\* the network holds now.
Forward(t) ==
    /\ threads[t].pc = "input_set"
    /\ threads' = [threads EXCEPT ![t].pc = "classical",
                                  ![t].forward_from = net_input]
    /\ UNCHANGED <<rz, yl, detectorVars, call, net_input, appVars>>

\* The classical paths run and detect() returns.
LeaveDetect(t) ==
    /\ threads[t].pc = "classical"
    /\ threads' = [threads EXCEPT ![t] = [pc |-> "idle", image |-> 0,
                                          forward_from |-> "none"]]
    /\ UNCHANGED <<rz, yl, detectorVars, call, net_input, appVars>>

InitConc ==
    /\ \E cfg \in BOOLEAN :
          /\ model_files = [config |-> cfg, weights |-> cfg, classes |-> FALSE,
                            names |-> <<>>, installed_later |-> FALSE,
                      load_fault |-> "none"]
          /\ LET d == _load_yolo_model(model_files, "none")
             IN  /\ use_yolo = d.use_yolo
                 /\ yolo_net = d.yolo_net
                 /\ yolo_classes = d.yolo_classes
    /\ loads = 1
    /\ call = Idle
    /\ rz = Idle
    /\ yl = Idle
    /\ net_input = "none"
    /\ threads = [t \in Threads |-> [pc |-> "idle", image |-> 0, forward_from |-> "none"]]
    /\ NoApp

NextConc ==
    \E t \in Threads : EnterDetect(t) \/ SetInput(t) \/ Forward(t) \/ LeaveDetect(t)

SpecConc == InitConc /\ [][NextConc]_vars

\* C5: with the model enabled, under every interleaving of two detect()
\* calls each call's forward pass is computed from the input tensor that
\* same call set, so its model detections depend only on its own image.
C5_ForwardUsesOwnInput ==
    \A t \in Threads :
        (use_yolo /\ threads[t].pc = "classical") =>
            threads[t].forward_from = threads[t].image

-----------------------------------------------------------------------------
(* app.py: the routes                                                      *)

\* generate_password_hash / check_password_hash: a hash answers for exactly
\* the password it was made from.
generate_password_hash(password) == <<"pbkdf2:sha256", password>>

\* Mutant of check_password_hash: every password is accepted.
check_password_hash_any(pwhash, password) == TRUE

check_password_hash(pwhash, password) == pwhash = generate_password_hash(password)

InitialUsers ==
    [u \in {"admin", "user"} |->
        generate_password_hash(IF u = "admin" THEN "admin123" ELSE "user123")]

\* What the client puts in the forms; "" is an empty field.
FormUsernames == {"admin", "eve", ""}
FormPasswords == {"admin123", "evepw", ""}

ALLOWED_EXTENSIONS == {"png", "jpg", "jpeg", "gif", "bmp"}

\* Client file names as token sequences plus extension; ext "" is a name
\* without a dot, the empty stem with it the empty filename.
ClientNames ==
    { [stem |-> <<"part">>, ext |-> "png"],
      [stem |-> <<"processed_", "part">>, ext |-> "png"],
      [stem |-> <<"notes">>, ext |-> "txt"],
      [stem |-> <<>>, ext |-> ""] }

\* '.' in filename and filename.rsplit('.', 1)[1].lower() in ALLOWED_EXTENSIONS
allowed_file(name) == name.ext # "" /\ name.ext \in ALLOWED_EXTENSIONS

\* datetime.now().strftime('%Y%m%d_%H%M%S') in successive seconds
Stamps == <<"20261104_120000", "20261104_120001">>

\* filename = f"{timestamp}_{secure_filename(file.filename)}"
stamped(timestamp, name) == <<timestamp, "_">> \o name.stem \o <<".", name.ext>>

NoOutputs ==
    [outputs |-> <<>>, yolo_fault |-> 0, gray_fault |-> FALSE,
     cracks |-> <<>>, crack_fault |-> 0,
     irregularities |-> <<>>, irregularity_fault |-> 0]

\* The uploaded files: whether cv2.imread decodes them, their size, and what
\* the detection stage finds on the preprocessed image.
UploadedFiles ==
    { [decodable |-> FALSE, width |-> 0, height |-> 0, scene |-> NoOutputs],
      [decodable |-> TRUE, width |-> 2000, height |-> 640,
       scene |-> [NoOutputs EXCEPT
                    !.outputs = <<YoloRow(56, 64, 112, 64, <<9000, 200>>)>>,
                    !.cracks = <<Contour(2 * 500, 100, 50, 10, 100, 220),
                                 Contour(2 * 2000, 0, 600, 640, 40, 1360)>>]],
      [decodable |-> TRUE, width |-> 2000, height |-> 1, scene |-> NoOutputs],
      [decodable |-> TRUE, width |-> 640, height |-> 640,
       scene |-> [NoOutputs EXCEPT !.gray_fault = TRUE]] }

\* Mutant of preprocess: an unreadable file is replaced by a blank image.
preprocess_blank(file, target) ==
    LET r == resize(IF file.decodable THEN file.width ELSE target,
                    IF file.decodable THEN file.height ELSE target, target, target)
    IN  IF r.pc = "raised"
        THEN [raised |-> TRUE, error |-> "cv2.error"]
        ELSE [raised |-> FALSE,
              image |-> [width |-> r.out_width, height |-> r.out_height] @@ file.scene]

\* ImageProcessor.preprocess(image_path): ValueError when cv2.imread gives
\* None; then resize, remove_noise, adjust_brightness.
preprocess(file, target) ==
    IF ~file.decodable
    THEN [raised |-> TRUE, error |-> "ValueError"]
    ELSE LET r == resize(file.width, file.height, target, target)
         IN  IF r.pc = "raised"
             THEN [raised |-> TRUE, error |-> "cv2.error"]
             ELSE [raised |-> FALSE,
                   image |-> [width |-> r.out_width, height |-> r.out_height]
                             @@ file.scene]

\* A file written under a name: an existing one is overwritten.
Written(dir, name, content) ==
    [n \in DOMAIN dir \cup {name} |-> IF n = name THEN content ELSE dir[n]]

Answer(route, status, flash) ==
    [route |-> route, status |-> status, flash |-> flash,
     decodable |-> "n/a", detect_ran |-> FALSE, draw_ran |-> FALSE, filename |-> <<>>,
     detected |-> <<>>, located |-> <<>>, form |-> <<>>]

\* Mutant of results_data: the detections are stored last first.
results_data_reversed(filename, output_filename, detection_results, timestamp) ==
    [original_filename |-> filename,
     processed_filename |-> output_filename,
     detections |-> [n \in 1..Len(detection_results) |->
                        detection_results[Len(detection_results) + 1 - n]],
     timestamp |-> timestamp,
     defect_count |-> Len(detection_results)]

\* results_data of upload, as json.dump writes it.
results_data(filename, output_filename, detection_results, timestamp) ==
    [original_filename |-> filename,
     processed_filename |-> output_filename,
     detections |-> detection_results,
     timestamp |-> timestamp,
     defect_count |-> Len(detection_results)]

\* /login
Login(method, username, password) ==
    /\ IF /\ method = "POST"
          /\ username \in DOMAIN USERS
          /\ check_password_hash(USERS[username], password)
       THEN /\ session' = username
            /\ response' = [Answer("login", "redirect_dashboard", "success") EXCEPT
                               !.form = <<username, password>>]
       ELSE /\ session' = session
            /\ response' = IF method = "POST"
                           THEN [Answer("login", "render_login", "error") EXCEPT
                                   !.form = <<username, password>>]
                           ELSE Answer("login", "render_login", "none")
    /\ UNCHANGED <<rz, yl, detectorVars, call, concVars, USERS, storeVars, clock>>

\* /logout
Logout ==
    /\ session' = "None"
    /\ response' = Answer("logout", "redirect_login", "info")
    /\ UNCHANGED <<rz, yl, detectorVars, call, concVars, USERS, storeVars, clock>>

\* /register
Register(username, password, confirm_password) ==
    /\ IF username = "" \/ password = "" \/ confirm_password = ""
       THEN UNCHANGED USERS /\ response' = Answer("register", "redirect_login", "error")
       ELSE IF password # confirm_password
       THEN UNCHANGED USERS /\ response' = Answer("register", "redirect_login", "error")
       ELSE IF username \in DOMAIN USERS
       THEN UNCHANGED USERS /\ response' = Answer("register", "redirect_login", "error")
       ELSE /\ USERS' = Written(USERS, username, generate_password_hash(password))
            /\ response' = Answer("register", "redirect_login", "success")
    /\ UNCHANGED <<rz, yl, detectorVars, call, concVars, session, storeVars, clock>>

\* /upload
Upload(method, has_file, name, file) ==
    /\ IF session = "None"
       THEN /\ response' = Answer("upload", "redirect_login", "none")
            /\ UNCHANGED storeVars
       ELSE IF method = "GET"
       THEN /\ response' = Answer("upload", "render_upload", "none")
            /\ UNCHANGED storeVars
       ELSE IF ~has_file \/ (name.stem = <<>> /\ name.ext = "")
       THEN /\ response' = Answer("upload", "redirect_upload", "error")
            /\ UNCHANGED storeVars
       ELSE IF ~allowed_file(name)
       THEN /\ response' = Answer("upload", "render_upload", "none")
            /\ UNCHANGED storeVars
       ELSE LET timestamp == Stamps[clock]
                filename == stamped(timestamp, name)
                pre == preprocess(file, TARGET_SIDE)
                det == detect(Self, pre.image)
                annotated == draw_detections(pre.image, det.detections)
                output_filename == <<"processed_">> \o filename
                failed == [Answer("upload", "redirect_upload", "error") EXCEPT
                             !.decodable = IF file.decodable THEN "yes" ELSE "no"]
            IN  /\ uploads' = uploads \cup {filename}
                /\ IF pre.raised
                   THEN /\ response' = failed
                        /\ UNCHANGED <<processed, results_files>>
                   ELSE IF det.raised
                   THEN /\ response' = [failed EXCEPT !.detect_ran = TRUE]
                        /\ UNCHANGED <<processed, results_files>>
                   ELSE IF annotated.raised
                   THEN /\ response' = [failed EXCEPT !.detect_ran = TRUE, !.draw_ran = TRUE]
                        /\ UNCHANGED <<processed, results_files>>
                   ELSE /\ processed' = Written(processed, output_filename, annotated)
                        /\ results_files' =
                              Written(results_files,
                                      <<"results_">> \o filename \o <<".json">>,
                                      results_data(filename, output_filename,
                                                   det.detections, timestamp))
                        /\ response' =
                              [Answer("upload", "redirect_results", "success") EXCEPT
                                 !.decodable = failed.decodable, !.detect_ran = TRUE,
                                 !.draw_ran = TRUE, !.filename = output_filename,
                                 !.detected = det.detections]
    /\ SetSelf(detector_after_call(Self, model_files))
    /\ UNCHANGED <<rz, yl, model_files, call, concVars, session, USERS, clock>>

\* /
Index ==
    /\ response' = Answer("index", IF session = "None" THEN "redirect_login"
                                   ELSE "redirect_dashboard", "none")
    /\ UNCHANGED <<rz, yl, detectorVars, call, concVars, session, USERS, storeVars, clock>>

\* /dashboard
Dashboard ==
    /\ response' = Answer("dashboard", IF session = "None" THEN "redirect_login"
                                       ELSE "render_dashboard", "none")
    /\ UNCHANGED <<rz, yl, detectorVars, call, concVars, session, USERS, storeVars, clock>>

IsNotProcessedPrefix(token) == token # "processed_"

\* filename.replace('processed_', ''): every occurrence is removed.
replace_processed(filename) == SelectSeq(filename, IsNotProcessedPrefix)

\* f"results_{filename.replace('processed_', '')}.json"
results_file_for(filename) ==
    <<"results_">> \o replace_processed(filename) \o <<".json">>

\* openpyxl is installed.
OPENPYXL_AVAILABLE == TRUE

\* What a route that loads the results record of filename answers: found
\* is the answer when the record exists, missing when it does not.
Loaded(filename, found, missing) ==
    IF session = "None"
    THEN Answer(found.route, "redirect_login", "none")
    ELSE IF results_file_for(filename) \in DOMAIN results_files
    THEN [found EXCEPT !.filename = filename, !.located = results_file_for(filename)]
    ELSE [missing EXCEPT !.filename = filename]

\* /results/<filename>: without a record an empty result is rendered.
Results(filename) ==
    /\ response' = Loaded(filename, Answer("results", "render_results", "none"),
                          Answer("results", "render_results", "none"))
    /\ UNCHANGED <<rz, yl, detectorVars, call, concVars, session, USERS, storeVars, clock>>

\* /generate_report/<filename>
GenerateReport(filename) ==
    /\ response' = Loaded(filename, Answer("generate_report", "send_file", "none"),
                          Answer("generate_report", "redirect_dashboard", "error"))
    /\ UNCHANGED <<rz, yl, detectorVars, call, concVars, session, USERS, storeVars, clock>>

\* /export_csv/<filename>
ExportCsv(filename) ==
    /\ response' = Loaded(filename, Answer("export_csv", "send_file", "none"),
                          Answer("export_csv", "redirect_dashboard", "error"))
    /\ UNCHANGED <<rz, yl, detectorVars, call, concVars, session, USERS, storeVars, clock>>

\* /export_excel/<filename>
ExportExcel(filename) ==
    /\ response' =
          IF session # "None" /\ ~OPENPYXL_AVAILABLE
          THEN Answer("export_excel", "redirect_dashboard", "error")
          ELSE Loaded(filename, Answer("export_excel", "send_file", "none"),
                      Answer("export_excel", "redirect_dashboard", "error"))
    /\ UNCHANGED <<rz, yl, detectorVars, call, concVars, session, USERS, storeVars, clock>>

\* The wall clock reaches the next second.
Tick ==
    /\ clock < Len(Stamps)
    /\ clock' = clock + 1
    /\ UNCHANGED <<rz, yl, detectorVars, call, concVars, session, USERS, storeVars, response>>

InitApp ==
    /\ \E cfg \in BOOLEAN :
          /\ model_files = [config |-> cfg, weights |-> cfg, classes |-> cfg,
                            names |-> IF cfg THEN <<"Dent">> ELSE <<>>,
                            installed_later |-> FALSE,
                      load_fault |-> "none"]
          /\ LET d == _load_yolo_model(model_files, "none")
             IN  /\ use_yolo = d.use_yolo
                 /\ yolo_net = d.yolo_net
                 /\ yolo_classes = d.yolo_classes
    /\ loads = 1
    /\ call = Idle
    /\ rz = Idle
    /\ yl = Idle
    /\ NoThreads
    /\ session = "None"
    /\ USERS = InitialUsers
    /\ uploads = {}
    /\ processed = <<>>
    /\ results_files = <<>>
    /\ clock = 1
    /\ response = Answer("none", "none", "none")

\* The requests a client sends: a GET carries no form and no file, a POST
\* without a file part no file name; a file that upload does not open is
\* given once.
LoginRequests ==
    { r \in [method : {"GET", "POST"}, username : FormUsernames, password : FormPasswords] :
        r.method = "GET" => (r.username = "" /\ r.password = "") }

UploadRequests ==
    { r \in [method : {"GET", "POST"}, has_file : BOOLEAN, name : ClientNames,
             file : UploadedFiles] :
        /\ r.method = "GET" => ~r.has_file
        /\ ~r.has_file => (r.name.stem = <<>> /\ r.name.ext = "")
        /\ ~(r.has_file /\ allowed_file(r.name)) => ~r.file.decodable }

\* A registration form: all fields and matching passwords, a mismatch, or
\* an empty field.
RegisterRequests ==
    { r \in [username : FormUsernames, password : FormPasswords,
             confirm_password : FormPasswords] :
        \/ r.username # "" /\ r.password = "evepw" /\ r.confirm_password # ""
        \/ r.username = "" /\ r.password = "evepw" /\ r.confirm_password = "evepw"
        \/ r.username = "eve" /\ r.password = "" /\ r.confirm_password = "" }

\* The file names a client asks results for: the processed file names
\* upload can answer with, written already or not.
ViewRequests ==
    { <<"processed_">> \o stamped(Stamps[c], name) :
        c \in 1..Len(Stamps), name \in { n \in ClientNames : allowed_file(n) } }

NextApp ==
    \/ Index
    \/ \E r \in LoginRequests : Login(r.method, r.username, r.password)
    \/ Logout
    \/ \E r \in RegisterRequests : Register(r.username, r.password, r.confirm_password)
    \/ Dashboard
    \/ \E r \in UploadRequests : Upload(r.method, r.has_file, r.name, r.file)
    \/ \E filename \in ViewRequests : Results(filename)
    \/ \E filename \in ViewRequests : GenerateReport(filename)
    \/ \E filename \in ViewRequests : ExportCsv(filename)
    \/ \E filename \in ViewRequests : ExportExcel(filename)
    \/ Tick

SpecApp == InitApp /\ [][NextApp]_vars

\* C10: when the source image cannot be decoded, preprocess reports a failure
\* and the upload produces no partial result: detect and draw_detections are
\* not run and no annotated image and no results record is written.
C10_UndecodableUploadLeavesNoResult ==
    [][(response'.route = "upload" /\ response'.decodable = "no") =>
          /\ response'.status = "redirect_upload"
          /\ response'.flash = "error"
          /\ ~response'.detect_ran
          /\ ~response'.draw_ran
          /\ processed' = processed
          /\ results_files' = results_files]_vars

\* C10 witness: an upload of an undecodable file was answered with the error,
\* after an earlier upload of the session had been processed.
C10_Witness ==
    /\ response.route = "upload"
    /\ response.decodable = "no"
    /\ response.status = "redirect_upload"
    /\ session # "None"
    /\ Cardinality(uploads) >= 2
    /\ Cardinality(DOMAIN results_files) = 1
    /\ Cardinality(DOMAIN processed) = 1

\* The results record an upload answered with redirect_results wrote.
UploadSucceeded(r) == r.route = "upload" /\ r.status = "redirect_results"

ResultsName(output_filename) ==
    <<"results_">> \o Tail(output_filename) \o <<".json">>

\* C14: for every successful upload the results record written has detections
\* equal to the list detect() returned, in the same order, defect_count equal
\* to its length, and carries original_filename, processed_filename and
\* timestamp; the annotated image is drawn from the same list.
C14_ResultsRecordIsDetectList ==
    [][UploadSucceeded(response') =>
          LET output_filename == response'.filename
              record == results_files'[ResultsName(output_filename)]
          IN  /\ record.detections = response'.detected
              /\ record.defect_count = Len(response'.detected)
              /\ record.processed_filename = output_filename
              /\ <<"processed_">> \o record.original_filename = output_filename
              /\ record.timestamp = Stamps[clock]
              /\ record.original_filename[1] = record.timestamp
              /\ processed'[output_filename].drawn = response'.detected]_vars

\* C14 witness: a successful upload whose detect() list holds a model
\* detection followed by two crack detections of different confidence.
C14_Witness ==
    /\ UploadSucceeded(response)
    /\ Len(response.detected) = 3
    /\ response.detected[1].type = "Dent"
    /\ response.detected[2].type = "Crack"
    /\ response.detected[2].confidence < response.detected[3].confidence
    /\ results_files[ResultsName(response.filename)].detections = response.detected

\* The routes that load a results record.
ViewRoutes == {"results", "generate_report", "export_csv", "export_excel"}

\* C19: for every uploaded file name, also one that contains "processed_",
\* the results, generate_report and export routes called with the processed
\* file name upload returned locate the results record upload wrote for it.
C19_ProcessedNameLocatesItsRecord ==
    (/\ response.route \in ViewRoutes
     /\ response.status # "redirect_login"
     /\ response.filename \in DOMAIN processed) =>
        /\ response.located \in DOMAIN results_files
        /\ results_files[response.located].processed_filename = response.filename

\* The routes that begin with the session check.
ProtectedRoutes == {"dashboard", "upload"} \cup ViewRoutes

\* C20: over any sequence of requests of one session, the session gets a
\* username only from a login whose password matches that username's stored
\* hash; an image is processed and results are shown or exported only while
\* the session holds a username; without one, from logout to the next
\* successful login, every protected route redirects to login and writes
\* nothing; register never changes the stored hash of an existing username
\* and never changes the session.
C20_OnlyLoggedInSessionsProcess ==
    [][/\ (session' # session /\ session' # "None") =>
             /\ response'.route = "login"
             /\ response'.form[1] = session'
             /\ session' \in DOMAIN USERS
             /\ USERS[session'] = <<"pbkdf2:sha256", response'.form[2]>>
       /\ (\/ storeVars' # storeVars
           \/ response'.status \in {"render_results", "send_file", "render_dashboard"}) =>
             /\ session # "None"
             /\ session' = session
       /\ (session = "None" /\ response'.route \in ProtectedRoutes) =>
             /\ response'.status = "redirect_login"
             /\ storeVars' = storeVars
       /\ response'.route = "logout" => session' = "None"
       /\ response'.route = "register" =>
             /\ session' = session
             /\ \A u \in DOMAIN USERS : u \in DOMAIN USERS' /\ USERS'[u] = USERS[u]]_vars

\* C20 witness: after a registration, a login, a processed upload and a
\* logout, a request for the results of that upload is redirected to login.
C20_Witness ==
    /\ session = "None"
    /\ "eve" \in DOMAIN USERS
    /\ response.route = "results"
    /\ response.status = "redirect_login"
    /\ DOMAIN results_files # {}

=============================================================================
